---- MODULE Spec2Model ----
(***************************************************************************)
(* Turnos (showtime slots) of the cinema management API: the conflict      *)
(* engine of backendApisCorporacionLaSirena.                               *)
(*                                                                         *)
(* The state is the turnos table of the PostgreSQL database (with its      *)
(* exclusion constraint turnos_no_overlap_exclusion), the wall clock, and  *)
(* the HTTP requests in flight.  Every request handler is an async         *)
(* function; one action of this module is the stretch of a handler between *)
(* two awaited database calls, so that handlers of different requests (or  *)
(* of different server instances) interleave at every database call.       *)
(* Times are milliseconds since an arbitrary origin.  The peliculas table  *)
(* (deletePelicula) and the refresh tokens of /api/auth are part of the    *)
(* state; each specification below moves the part its endpoints touch.     *)
(***************************************************************************)
EXTENDS Integers, Sequences, FiniteSets, TLC

VARIABLES
    turnos,     \* the turnos table: a sequence of rows, the id of a row is its index
    now,        \* the wall clock read by new Date()
    req,        \* the requests: slot -> handler state, input, locals and response
    peliculas,  \* the peliculas table: id -> row
    refreshTokens,  \* the refresh_tokens table: a sequence of rows
    authReq,    \* the requests of /api/auth: slot -> handler state
    call        \* one application of a pure function: its arguments and result

vars == <<turnos, now, req, peliculas, refreshTokens, authReq, call>>

(***************************************************************************)
(* Bounds of the model.                                                    *)
(***************************************************************************)
MaxReqs == 2        \* request slots
MaxTicks == 1       \* times the clock advances
MaxBatch == 3       \* longest batch of createMultipleTurnos that is enumerated
MaxOver == 1        \* how far past the limit of 50 the long batches go

(***************************************************************************)
(* Constants of the program.                                               *)
(***************************************************************************)
CreateBufferMin == 15      \* createTurno: pelicula.duracionMin + 15
BufferMin == 15            \* validateTurnoDuration: duracionPeliculaMin + 15
MaxDuracionTurnoMin == 240 \* validateTurnoDuration: duracionTurnoMin > 240
BatchLimit == 50           \* createMultipleTurnos: turnos.length > 50
MsPerMin == 1000 * 60

Min(n) == n * MsPerMin

InvalidDate == 0 - 1       \* new Date(x) of an unparsable x (getTime() is NaN)
Absent == 0 - 2            \* an optional date field that the body does not carry
NoStr == "none"            \* an optional string field that the body does not carry

Reqs == 1..MaxReqs

(***************************************************************************)
(* The peliculas table.  duracionMin 60 is the movie of the e2e test, 131  *)
(* is one of the seed.  "px" is an id with no row; "pd" is the id of a row  *)
(* that was soft-deleted (eliminadoEn set), which findFirst({id,            *)
(* eliminadoEn: null}) does not return but a reference to it still         *)
(* satisfies the foreign key of turnos.                                    *)
(***************************************************************************)
MissingPelicula == "px"
DeletedPelicula == "pd"

Pelicula(duracion, eliminado) == [duracionMin |-> duracion, eliminado |-> eliminado]

\* the table after the seed and one deletePelicula
SeedPeliculas ==
    [p \in {"p1", "p2", DeletedPelicula} |->
        IF p = "p1" THEN Pelicula(60, FALSE)
        ELSE IF p = "p2" THEN Pelicula(131, FALSE)
        ELSE Pelicula(131, TRUE)]

\* the ids of the rows, which a foreign key may reference
PeliculaRows == DOMAIN peliculas
\* the ids that findFirst({ where: { id, eliminadoEn: null } }) finds
PeliculaIds == { p \in PeliculaRows : ~peliculas[p].eliminado }
\* pelicula.duracionMin (0 for an id with no row, which no handler reads)
duracionMin(p) == IF p \in PeliculaRows THEN peliculas[p].duracionMin ELSE 0

Salas == {"A1", "A2"}
LiveEstados == {"ACTIVO", "INACTIVO"}
Estados == {"ACTIVO", "INACTIVO", "CANCELADO"}

(***************************************************************************)
(* validateTurnoDuration: the first failing rule names the message.        *)
(***************************************************************************)
\* Mutant: the start is compared with the clock before the range is checked,
\* and a start equal to the clock counts as past.
validateTurnoDuration_PastFirst(inicio, fin, duracionPeliculaMin, ahora) ==
    IF inicio = InvalidDate \/ fin = InvalidDate THEN "INVALID_DATE"
    ELSE IF inicio <= ahora THEN "IN_THE_PAST"
    ELSE IF fin <= inicio THEN "INVALID_RANGE"
    ELSE LET duracionTurnoMin == (fin - inicio) \div MsPerMin
             duracionMinimaRequerida == duracionPeliculaMin + BufferMin
         IN  IF duracionTurnoMin < duracionMinimaRequerida THEN "TOO_SHORT"
             ELSE IF duracionTurnoMin > MaxDuracionTurnoMin THEN "TOO_LONG"
             ELSE "OK"

\* Mutant: a turno of exactly the maximum is too long.
validateTurnoDuration_CeilingExclusive(inicio, fin, duracionPeliculaMin, ahora) ==
    IF inicio = InvalidDate \/ fin = InvalidDate THEN "INVALID_DATE"
    ELSE IF fin <= inicio THEN "INVALID_RANGE"
    ELSE IF inicio < ahora THEN "IN_THE_PAST"
    ELSE LET duracionTurnoMin == (fin - inicio) \div MsPerMin
             duracionMinimaRequerida == duracionPeliculaMin + BufferMin
         IN  IF duracionTurnoMin < duracionMinimaRequerida THEN "TOO_SHORT"
             ELSE IF duracionTurnoMin >= MaxDuracionTurnoMin THEN "TOO_LONG"
             ELSE "OK"

\* Mutant: the duration of the turno is rounded up to whole minutes.
validateTurnoDuration_RoundUp(inicio, fin, duracionPeliculaMin, ahora) ==
    IF inicio = InvalidDate \/ fin = InvalidDate THEN "INVALID_DATE"
    ELSE IF fin <= inicio THEN "INVALID_RANGE"
    ELSE IF inicio < ahora THEN "IN_THE_PAST"
    ELSE LET duracionTurnoMin == (fin - inicio + MsPerMin - 1) \div MsPerMin
             duracionMinimaRequerida == duracionPeliculaMin + BufferMin
         IN  IF duracionTurnoMin < duracionMinimaRequerida THEN "TOO_SHORT"
             ELSE IF duracionTurnoMin > MaxDuracionTurnoMin THEN "TOO_LONG"
             ELSE "OK"

validateTurnoDuration(inicio, fin, duracionPeliculaMin, ahora) ==
    IF inicio = InvalidDate \/ fin = InvalidDate THEN "INVALID_DATE"
    ELSE IF fin <= inicio THEN "INVALID_RANGE"
    ELSE IF inicio < ahora THEN "IN_THE_PAST"
    ELSE LET duracionTurnoMin == (fin - inicio) \div MsPerMin
             duracionMinimaRequerida == duracionPeliculaMin + BufferMin
         IN  IF duracionTurnoMin < duracionMinimaRequerida THEN "TOO_SHORT"
             ELSE IF duracionTurnoMin > MaxDuracionTurnoMin THEN "TOO_LONG"
             ELSE "OK"

(***************************************************************************)
(* validateTurnoOverlap: the where clause of its findMany.                 *)
(***************************************************************************)
\* Mutant: every comparison of the four cases is inclusive.
OverlapCases_Inclusive(t, inicio, fin) ==
    \/ (t.inicio <= inicio /\ t.fin >= inicio)
    \/ (t.inicio <= fin /\ t.fin >= fin)
    \/ (t.inicio >= inicio /\ t.fin <= fin)
    \/ (t.inicio <= inicio /\ t.fin >= fin)

OverlapCases(t, inicio, fin) ==
    \/ (t.inicio <= inicio /\ t.fin > inicio)     \* caso 1
    \/ (t.inicio < fin /\ t.fin >= fin)           \* caso 2
    \/ (t.inicio >= inicio /\ t.fin <= fin)       \* caso 3
    \/ (t.inicio <= inicio /\ t.fin >= fin)       \* caso 4

\* Mutant: the pre-check only looks for a turno that contains the new one.
turnosSolapados_OnlyContained(rows, sala, inicio, fin, turnoIdExcluir) ==
    { id \in DOMAIN rows :
        /\ rows[id].sala = sala
        /\ rows[id].estado \in LiveEstados
        /\ ~rows[id].eliminado
        /\ rows[id].inicio <= inicio /\ rows[id].fin >= fin
        /\ id # turnoIdExcluir }

\* Mutant: the turno being updated is not excluded from the pre-check.
turnosSolapados_NoExcluir(rows, sala, inicio, fin, turnoIdExcluir) ==
    { id \in DOMAIN rows :
        /\ rows[id].sala = sala
        /\ rows[id].estado \in LiveEstados
        /\ ~rows[id].eliminado
        /\ OverlapCases(rows[id], inicio, fin) }

\* Mutant: the where clause does not filter by sala.
turnosSolapados_AnySala(rows, sala, inicio, fin, turnoIdExcluir) ==
    { id \in DOMAIN rows :
        /\ rows[id].estado \in LiveEstados
        /\ ~rows[id].eliminado
        /\ OverlapCases(rows[id], inicio, fin)
        /\ id # turnoIdExcluir }

\* turnoIdExcluir = 0 stands for the argument left out
turnosSolapados(rows, sala, inicio, fin, turnoIdExcluir) ==
    { id \in DOMAIN rows :
        /\ rows[id].sala = sala
        /\ rows[id].estado \in LiveEstados
        /\ ~rows[id].eliminado
        /\ OverlapCases(rows[id], inicio, fin)
        /\ id # turnoIdExcluir }

(***************************************************************************)
(* The migration's constraint                                              *)
(*   EXCLUDE USING GIST (sala WITH =, tstzrange(inicio, fin) WITH &&)      *)
(* tstzrange(lo, hi) is [lo, hi); it is empty when lo = hi, and an empty   *)
(* range overlaps nothing.  The constraint has no WHERE clause: it covers  *)
(* every row, whatever its estado and eliminadoEn.                         *)
(***************************************************************************)
RangeOverlap(lo1, hi1, lo2, hi2) ==
    lo1 < hi1 /\ lo2 < hi2 /\ lo1 < hi2 /\ lo2 < hi1

\* Mutant: a unique index on (sala, inicio) instead of the exclusion of ranges.
ExclusionConflicts_UniqueInicio(rows, id, sala, inicio, fin) ==
    { j \in DOMAIN rows :
        j # id /\ rows[j].sala = sala /\ rows[j].inicio = inicio }

\* the rows that the row `id` (0 for a row being inserted) would conflict with
ExclusionConflicts(rows, id, sala, inicio, fin) ==
    { j \in DOMAIN rows :
        /\ j # id
        /\ rows[j].sala = sala
        /\ RangeOverlap(rows[j].inicio, rows[j].fin, inicio, fin) }

\* Mutant: the migration was not applied.
turnos_no_overlap_exclusion_Missing(rows, id, sala, inicio, fin) == TRUE

turnos_no_overlap_exclusion(rows, id, sala, inicio, fin) ==
    ExclusionConflicts(rows, id, sala, inicio, fin) = {}

(***************************************************************************)
(* Errors.  createError builds an ApiError; the storage layer throws       *)
(* errors that carry no statusCode.  errorHandler turns an error into the  *)
(* response.                                                               *)
(***************************************************************************)
createError(statusCode, message, code) ==
    [statusCode |-> statusCode, code |-> code, message |-> message]

\* PostgreSQL 23P01, raised by Prisma with the constraint's name in the message
ExclusionError ==
    [statusCode |-> 0, code |-> NoStr, message |-> "turnos_no_overlap_exclusion"]
\* a timeout or a lost connection (Prisma P1001/P1008/P2024)
TransientError ==
    [statusCode |-> 0, code |-> "P1001", message |-> "TRANSIENT"]
\* a peliculaId with no row in peliculas (Prisma P2003)
ForeignKeyError ==
    [statusCode |-> 0, code |-> "P2003", message |-> "FOREIGN_KEY"]
\* tstzrange(inicio, fin) of the constraint with inicio > fin: "range lower bound
\* must be less than or equal to range upper bound"
RangeError ==
    [statusCode |-> 0, code |-> NoStr, message |-> "RANGE_BOUNDS"]
\* turnoData.peliculaId of a null item
TypeError ==
    [statusCode |-> 0, code |-> NoStr, message |-> "TypeError"]

errorHandler(error) ==
    [status  |-> IF error.statusCode = 0 THEN 500 ELSE error.statusCode,
     code    |-> IF error.code = NoStr THEN "INTERNAL_SERVER_ERROR" ELSE error.code,
     mensaje |-> error.message]

\* the test of the catch blocks of createTurno and processTurnoItem
IsConstraintError(error) ==
    error.code = "P2002" \/ error.message = "turnos_no_overlap_exclusion"

(***************************************************************************)
(* Requests.  A slot holds the handler's position (pc), the body (in), the *)
(* locals that live across an await, and the response.  The fields         *)
(* faulted, prechecked, liveAtWrite, dbRejected and seen are history: they *)
(* record what happened to the request and are read by no handler, and so  *)
(* is the index kept with each id of turnosCreados.                        *)
(***************************************************************************)
NoInput ==
    [id |-> 0, peliculaId |-> NoStr, sala |-> NoStr, inicio |-> Absent,
     fin |-> Absent, estado |-> NoStr, turnos |-> <<>>]

Idle ==
    [kind |-> "none", pc |-> "idle", in |-> NoInput,
     idx |-> 0, inicioDate |-> Absent, finDate |-> Absent, sala |-> NoStr,
     status |-> 0, code |-> NoStr, mensaje |-> NoStr, conflicto |-> 0,
     data |-> 0, dataFin |-> Absent,
     turnosCreados |-> <<>>, errores |-> <<>>,
     faulted |-> FALSE, prechecked |-> FALSE, liveAtWrite |-> FALSE,
     dbRejected |-> FALSE, seen |-> {}]

\* the response is sent: the locals die with the handler
Respond(q, status, code, mensaje) ==
    [q EXCEPT !.pc = "done", !.status = status, !.code = code, !.mensaje = mensaje,
              !.idx = 0, !.inicioDate = Absent, !.finDate = Absent, !.sala = NoStr]

\* next(error): the error reaches errorHandler
NextError(q, error) ==
    LET e == errorHandler(error) IN Respond(q, e.status, e.code, e.mensaje)

Done(rq) == { r \in Reqs : rq[r].pc = "done" }

Arrive(rq, r, kind, in) ==
    [Idle EXCEPT !.kind = kind, !.in = in, !.seen = Done(rq)]

\* slots are taken in order
CanArrive(r) ==
    /\ req[r].pc = "idle"
    /\ \A p \in Reqs : p < r => req[p].pc # "idle"

NewRow(peliculaId, sala, inicio, fin, estado) ==
    [peliculaId |-> peliculaId, sala |-> sala, inicio |-> inicio, fin |-> fin,
     estado |-> estado, eliminado |-> FALSE]

\* some live (ACTIVO/INACTIVO, not soft-deleted) row other than `id` of the sala
\* intersects [inicio, fin)
LiveIntersects(rows, id, sala, inicio, fin) ==
    \E j \in ExclusionConflicts(rows, id, sala, inicio, fin) :
        rows[j].estado \in LiveEstados /\ ~rows[j].eliminado

\* what a storage write can do: succeed, fail before the commit, or fail (time
\* out) after the commit
WriteOutcomes == {"ok", "fail", "failAfterCommit"}

(***************************************************************************)
(* validateTurnoOverlap.  dbOk = FALSE is a findMany that throws: the      *)
(* catch block answers valido: false.  Without orderBy the storage may     *)
(* return the conflicting rows in any order: primero is the row that came  *)
(* first (0 when there is none).                                           *)
(***************************************************************************)
validateTurnoOverlap(rows, sala, inicio, fin, turnoIdExcluir, dbOk, primero) ==
    IF ~dbOk
    THEN [valido |-> FALSE, mensaje |-> "OVERLAP_INTERNAL_ERROR", conflicto |-> 0]
    ELSE IF turnosSolapados(rows, sala, inicio, fin, turnoIdExcluir) # {}
    THEN [valido |-> FALSE, mensaje |-> "OVERLAP", conflicto |-> primero]
    ELSE [valido |-> TRUE, mensaje |-> NoStr, conflicto |-> 0]

\* the rows findMany may return first
Primeros(rows, sala, inicio, fin, turnoIdExcluir) ==
    IF turnosSolapados(rows, sala, inicio, fin, turnoIdExcluir) = {}
    THEN {0}
    ELSE turnosSolapados(rows, sala, inicio, fin, turnoIdExcluir)

(***************************************************************************)
(* createTurno (POST /api/turnos, after validateTurno).                    *)
(***************************************************************************)
\* Mutant: the catch block maps nothing, as that of updateTurno.
createTurno_catch_Unmapped(q, error) == NextError(q, error)

\* the catch block: a constraint error becomes 409, anything else goes to next
createTurno_catch(q, error) ==
    IF IsConstraintError(error)
    THEN NextError(q, createError(409, "DB_CONSTRAINT", "SCHEDULE_CONFLICT"))
    ELSE NextError(q, error)

\* Mutant: fin is taken from the body when the body carries one.
createTurno_findPelicula_CallerFin(q, dbOk, ahora) ==
    IF ~dbOk THEN createTurno_catch([q EXCEPT !.faulted = TRUE], TransientError)
    ELSE IF q.in.peliculaId \notin PeliculaIds
    THEN createTurno_catch(q, createError(404, "PELICULA_NOT_FOUND", "PELICULA_NOT_FOUND"))
    ELSE LET inicioDate == q.in.inicio
             finDate == IF q.in.fin # Absent THEN q.in.fin
                        ELSE inicioDate
                          + (duracionMin(q.in.peliculaId) + CreateBufferMin) * 60 * 1000
             duracionValidation ==
                 validateTurnoDuration(inicioDate, finDate,
                                       duracionMin(q.in.peliculaId), ahora)
         IN  IF duracionValidation # "OK"
             THEN createTurno_catch(q, createError(400, duracionValidation,
                                                   "INVALID_DURATION"))
             ELSE [q EXCEPT !.pc = "overlap", !.inicioDate = inicioDate,
                            !.finDate = finDate, !.sala = q.in.sala]

\* pelicula.findFirst, the computation of fin, validateTurnoDuration
createTurno_findPelicula(q, dbOk, ahora) ==
    IF ~dbOk THEN createTurno_catch([q EXCEPT !.faulted = TRUE], TransientError)
    ELSE IF q.in.peliculaId \notin PeliculaIds
    THEN createTurno_catch(q, createError(404, "PELICULA_NOT_FOUND", "PELICULA_NOT_FOUND"))
    ELSE LET inicioDate == q.in.inicio
             finDate == inicioDate
                          + (duracionMin(q.in.peliculaId) + CreateBufferMin) * 60 * 1000
             duracionValidation ==
                 validateTurnoDuration(inicioDate, finDate,
                                       duracionMin(q.in.peliculaId), ahora)
         IN  IF duracionValidation # "OK"
             THEN createTurno_catch(q, createError(400, duracionValidation,
                                                   "INVALID_DURATION"))
             ELSE [q EXCEPT !.pc = "overlap", !.inicioDate = inicioDate,
                            !.finDate = finDate, !.sala = q.in.sala]

createTurno_overlap(q, rows, dbOk, primero) ==
    LET overlapValidation ==
            validateTurnoOverlap(rows, q.sala, q.inicioDate, q.finDate, 0, dbOk, primero)
        q1 == [q EXCEPT !.faulted = ~dbOk]
    IN  IF ~overlapValidation.valido
        THEN createTurno_catch([q1 EXCEPT !.conflicto = overlapValidation.conflicto],
                 createError(409, overlapValidation.mensaje, "SCHEDULE_CONFLICT"))
        ELSE [q1 EXCEPT !.pc = "write", !.prechecked = TRUE]

\* Mutant: the row is written first and the conflict is detected afterwards,
\* with nothing rolled back.
createTurno_insert_CheckAfter(q, rows, outcome) ==
    LET row == NewRow(q.in.peliculaId, q.sala, q.inicioDate, q.finDate,
                      IF q.in.estado = NoStr THEN "ACTIVO" ELSE q.in.estado)
    IN  IF ~turnos_no_overlap_exclusion(rows, 0, row.sala, row.inicio, row.fin)
        THEN [req |-> createTurno_catch([q EXCEPT !.dbRejected = TRUE], ExclusionError),
              rows |-> Append(rows, row)]
        ELSE [req |-> Respond([q EXCEPT !.data = Len(rows) + 1, !.dataFin = row.fin],
                              201, NoStr, NoStr),
              rows |-> Append(rows, row)]

\* prisma.turno.create and the response
createTurno_insert(q, rows, outcome) ==
    LET row == NewRow(q.in.peliculaId, q.sala, q.inicioDate, q.finDate,
                      IF q.in.estado = NoStr THEN "ACTIVO" ELSE q.in.estado)
        q1 == [q EXCEPT !.liveAtWrite =
                   LiveIntersects(rows, 0, q.sala, q.inicioDate, q.finDate)]
    IN  IF ~turnos_no_overlap_exclusion(rows, 0, row.sala, row.inicio, row.fin)
        THEN [req |-> createTurno_catch([q1 EXCEPT !.dbRejected = TRUE], ExclusionError),
              rows |-> rows]
        ELSE IF outcome = "fail"
        THEN [req |-> createTurno_catch([q1 EXCEPT !.faulted = TRUE], TransientError),
              rows |-> rows]
        ELSE IF outcome = "failAfterCommit"
        THEN [req |-> createTurno_catch([q1 EXCEPT !.faulted = TRUE], TransientError),
              rows |-> Append(rows, row)]
        ELSE [req |-> Respond([q1 EXCEPT !.data = Len(rows) + 1, !.dataFin = row.fin],
                              201, NoStr, NoStr),
              rows |-> Append(rows, row)]

\* the bodies of POST /api/turnos that are enumerated; the e2e test posts the
\* first and then one that starts 10 minutes later
CreateInputs ==
    { [NoInput EXCEPT !.peliculaId = "p1", !.sala = s, !.inicio = i]
        : s \in Salas, i \in {Min(10), Min(20), Min(85)} }
    \cup { [NoInput EXCEPT !.peliculaId = "p1", !.sala = "A1", !.inicio = Min(10),
                           !.estado = "CANCELADO"],
           [NoInput EXCEPT !.peliculaId = "p1", !.sala = "A1", !.inicio = Min(10),
                           !.fin = Min(100)],
           [NoInput EXCEPT !.peliculaId = MissingPelicula, !.sala = "A1",
                           !.inicio = Min(10)],
           [NoInput EXCEPT !.peliculaId = DeletedPelicula, !.sala = "A1",
                           !.inicio = Min(10)] }

createTurno(r) ==
    \E in \in CreateInputs, dbOk \in BOOLEAN :
        /\ CanArrive(r)
        /\ req' = [req EXCEPT ![r] =
                     createTurno_findPelicula(Arrive(req, r, "create", in), dbOk, now)]
        /\ UNCHANGED <<turnos, now, peliculas, refreshTokens, authReq, call>>

createTurno_validateOverlap(r) ==
    /\ req[r].kind = "create" /\ req[r].pc = "overlap"
    /\ \E dbOk \in BOOLEAN,
          primero \in Primeros(turnos, req[r].sala, req[r].inicioDate, req[r].finDate, 0) :
          req' = [req EXCEPT ![r] = createTurno_overlap(req[r], turnos, dbOk, primero)]
    /\ UNCHANGED <<turnos, now, peliculas, refreshTokens, authReq, call>>

createTurno_create(r) ==
    /\ req[r].kind = "create" /\ req[r].pc = "write"
    /\ \E outcome \in WriteOutcomes :
          LET res == createTurno_insert(req[r], turnos, outcome)
          IN  /\ req' = [req EXCEPT ![r] = res.req]
              /\ turnos' = res.rows
    /\ UNCHANGED <<now, peliculas, refreshTokens, authReq, call>>

(***************************************************************************)
(* updateTurno (PUT /api/turnos/:id, after validateTurnoUpdate).  The      *)
(* catch block maps nothing: every error goes to next.                     *)
(***************************************************************************)
updateTurno_catch(q, error) == NextError(q, error)

\* turno.findFirst({id, eliminadoEn: null}) and, when the body carries inicio or
\* fin, validateTurnoDuration against the pelicula the turno references now
updateTurno_findFirst(q, rows, dbOk, ahora) ==
    IF ~dbOk THEN updateTurno_catch([q EXCEPT !.faulted = TRUE], TransientError)
    ELSE IF q.in.id \notin DOMAIN rows \/ rows[q.in.id].eliminado
    THEN updateTurno_catch(q, createError(404, "TURNO_NOT_FOUND", "TURNO_NOT_FOUND"))
    ELSE LET turnoExistente == rows[q.in.id] IN
         IF q.in.inicio # Absent \/ q.in.fin # Absent
         THEN LET inicioDate == IF q.in.inicio # Absent THEN q.in.inicio
                                ELSE turnoExistente.inicio
                  finDate == IF q.in.fin # Absent THEN q.in.fin ELSE turnoExistente.fin
                  duracionValidation ==
                      validateTurnoDuration(inicioDate, finDate,
                          duracionMin(turnoExistente.peliculaId), ahora)
              IN  IF duracionValidation # "OK"
                  THEN updateTurno_catch(q, createError(400, duracionValidation,
                                                        "INVALID_DURATION"))
                  ELSE [q EXCEPT !.pc = "overlap", !.inicioDate = inicioDate,
                                 !.finDate = finDate,
                                 !.sala = IF q.in.sala # NoStr THEN q.in.sala
                                          ELSE turnoExistente.sala]
         ELSE [q EXCEPT !.pc = "write"]

updateTurno_overlap(q, rows, dbOk, primero) ==
    LET overlapValidation ==
            validateTurnoOverlap(rows, q.sala, q.inicioDate, q.finDate, q.in.id,
                                 dbOk, primero)
        q1 == [q EXCEPT !.faulted = ~dbOk]
    IN  IF ~overlapValidation.valido
        THEN updateTurno_catch([q1 EXCEPT !.conflicto = overlapValidation.conflicto],
                 createError(409, overlapValidation.mensaje, "SCHEDULE_CONFLICT"))
        ELSE [q1 EXCEPT !.pc = "write", !.prechecked = TRUE]

\* data: {...updateData, actualizadoEn}: the fields the body carries, with inicio
\* and fin both set when either was given
UpdatedRow(q, old) ==
    [old EXCEPT !.peliculaId = IF q.in.peliculaId # NoStr THEN q.in.peliculaId ELSE @,
                !.sala = IF q.in.sala # NoStr THEN q.in.sala ELSE @,
                !.inicio = IF q.inicioDate # Absent THEN q.inicioDate ELSE @,
                !.fin = IF q.finDate # Absent THEN q.finDate ELSE @,
                !.estado = IF q.in.estado # NoStr THEN q.in.estado ELSE @]

\* prisma.turno.update({where: {id}}) and the response
updateTurno_write(q, rows, outcome) ==
    LET id == q.in.id
        row == UpdatedRow(q, rows[id])
        q1 == [q EXCEPT !.liveAtWrite =
                   LiveIntersects(rows, id, row.sala, row.inicio, row.fin)]
    IN  IF ~turnos_no_overlap_exclusion(rows, id, row.sala, row.inicio, row.fin)
        THEN [req |-> updateTurno_catch([q1 EXCEPT !.dbRejected = TRUE], ExclusionError),
              rows |-> rows]
        ELSE IF row.peliculaId \notin PeliculaRows
        THEN [req |-> updateTurno_catch(q1, ForeignKeyError), rows |-> rows]
        ELSE IF outcome = "fail"
        THEN [req |-> updateTurno_catch([q1 EXCEPT !.faulted = TRUE], TransientError),
              rows |-> rows]
        ELSE IF outcome = "failAfterCommit"
        THEN [req |-> updateTurno_catch([q1 EXCEPT !.faulted = TRUE], TransientError),
              rows |-> [rows EXCEPT ![id] = row]]
        ELSE [req |-> Respond([q1 EXCEPT !.data = id, !.dataFin = row.fin],
                              200, NoStr, NoStr),
              rows |-> [rows EXCEPT ![id] = row]]

\* the bodies of PUT /api/turnos/:id that are enumerated
UpdatePatches ==
    { [NoInput EXCEPT !.inicio = Min(20), !.fin = Min(95)],
      [NoInput EXCEPT !.inicio = Min(85)],
      [NoInput EXCEPT !.fin = Min(160)],
      [NoInput EXCEPT !.sala = "A1"],
      [NoInput EXCEPT !.sala = "A2", !.inicio = Min(20), !.fin = Min(95)],
      [NoInput EXCEPT !.estado = "ACTIVO"],
      [NoInput EXCEPT !.estado = "CANCELADO"],
      [NoInput EXCEPT !.peliculaId = "p2"],
      [NoInput EXCEPT !.peliculaId = MissingPelicula],
      [NoInput EXCEPT !.peliculaId = DeletedPelicula] }

\* the ids a request may name: the rows of the table and one id with no row
Ids == 1..(Len(turnos) + 1)

updateTurno(r) ==
    \E patch \in UpdatePatches, id \in Ids, dbOk \in BOOLEAN :
        /\ CanArrive(r)
        /\ req' = [req EXCEPT ![r] =
                     updateTurno_findFirst(
                         Arrive(req, r, "update", [patch EXCEPT !.id = id]),
                         turnos, dbOk, now)]
        /\ UNCHANGED <<turnos, now, peliculas, refreshTokens, authReq, call>>

updateTurno_validateOverlap(r) ==
    /\ req[r].kind = "update" /\ req[r].pc = "overlap"
    /\ \E dbOk \in BOOLEAN,
          primero \in Primeros(turnos, req[r].sala, req[r].inicioDate, req[r].finDate,
                               req[r].in.id) :
          req' = [req EXCEPT ![r] = updateTurno_overlap(req[r], turnos, dbOk, primero)]
    /\ UNCHANGED <<turnos, now, peliculas, refreshTokens, authReq, call>>

updateTurno_update(r) ==
    /\ req[r].kind = "update" /\ req[r].pc = "write"
    /\ \E outcome \in WriteOutcomes :
          LET res == updateTurno_write(req[r], turnos, outcome)
          IN  /\ req' = [req EXCEPT ![r] = res.req]
              /\ turnos' = res.rows
    /\ UNCHANGED <<now, peliculas, refreshTokens, authReq, call>>

(***************************************************************************)
(* deleteTurno (DELETE /api/turnos/:id): a soft delete.                    *)
(***************************************************************************)
deleteTurno_findFirst(q, rows, dbOk) ==
    IF ~dbOk THEN NextError([q EXCEPT !.faulted = TRUE], TransientError)
    ELSE IF q.in.id \notin DOMAIN rows \/ rows[q.in.id].eliminado
    THEN NextError(q, createError(404, "TURNO_NOT_FOUND", "TURNO_NOT_FOUND"))
    ELSE [q EXCEPT !.pc = "write"]

deleteTurno_write(q, rows, outcome) ==
    LET id == q.in.id
        row == [rows[id] EXCEPT !.eliminado = TRUE, !.estado = "CANCELADO"]
    IN  IF outcome = "fail"
        THEN [req |-> NextError([q EXCEPT !.faulted = TRUE], TransientError),
              rows |-> rows]
        ELSE IF outcome = "failAfterCommit"
        THEN [req |-> NextError([q EXCEPT !.faulted = TRUE], TransientError),
              rows |-> [rows EXCEPT ![id] = row]]
        ELSE [req |-> Respond([q EXCEPT !.data = id], 200, NoStr, NoStr),
              rows |-> [rows EXCEPT ![id] = row]]

deleteTurno(r) ==
    \E id \in Ids, dbOk \in BOOLEAN :
        /\ CanArrive(r)
        /\ req' = [req EXCEPT ![r] =
                     deleteTurno_findFirst(
                         Arrive(req, r, "delete", [NoInput EXCEPT !.id = id]),
                         turnos, dbOk)]
        /\ UNCHANGED <<turnos, now, peliculas, refreshTokens, authReq, call>>

deleteTurno_update(r) ==
    /\ req[r].kind = "delete" /\ req[r].pc = "write"
    /\ \E outcome \in WriteOutcomes :
          LET res == deleteTurno_write(req[r], turnos, outcome)
          IN  /\ req' = [req EXCEPT ![r] = res.req]
              /\ turnos' = res.rows
    /\ UNCHANGED <<now, peliculas, refreshTokens, authReq, call>>

(***************************************************************************)
(* createMultipleTurnos (POST /api/turnos/bulk; the route has no           *)
(* validation middleware).  processTurnoItem runs for one item after the   *)
(* other; idx is the loop variable plus one.                               *)
(***************************************************************************)
Item(peliculaId, sala, inicio, fin) ==
    [isNull |-> FALSE, peliculaId |-> peliculaId, sala |-> sala,
     inicio |-> inicio, fin |-> fin, estado |-> NoStr]

\* a JSON null in the array
NullItem ==
    [isNull |-> TRUE, peliculaId |-> NoStr, sala |-> NoStr,
     inicio |-> Absent, fin |-> Absent, estado |-> NoStr]

\* the catch block of createMultipleTurnos
createMultipleTurnos_catch(q, error) == NextError(q, error)

\* the loop goes on to the next item, or the response is sent
ItemDone(q) ==
    IF q.idx = Len(q.in.turnos)
    THEN Respond(q, 201, NoStr, NoStr)
    ELSE [q EXCEPT !.pc = "lookup", !.idx = q.idx + 1, !.inicioDate = Absent,
                   !.finDate = Absent, !.sala = NoStr]

\* errores.push({index, error, data})
PushError(q, error, conflicto) ==
    ItemDone([q EXCEPT !.errores =
                Append(@, [index |-> q.idx - 1, error |-> error, conflicto |-> conflicto])])

\* pelicula.findFirst and validateTurnoDuration of item idx; both run outside
\* the try block of processTurnoItem
processTurnoItem_findPelicula(q, dbOk, ahora) ==
    LET turnoData == q.in.turnos[q.idx] IN
    IF turnoData.isNull THEN createMultipleTurnos_catch(q, TypeError)
    ELSE IF ~dbOk
    THEN createMultipleTurnos_catch([q EXCEPT !.faulted = TRUE], TransientError)
    ELSE IF turnoData.peliculaId \notin PeliculaIds
    THEN PushError(q, "PELICULA_NOT_FOUND", 0)
    ELSE LET inicioDate == turnoData.inicio
             finDate == turnoData.fin
             duracionValidation ==
                 validateTurnoDuration(inicioDate, finDate,
                                       duracionMin(turnoData.peliculaId), ahora)
         IN  IF duracionValidation # "OK"
             THEN PushError(q, duracionValidation, 0)
             ELSE [q EXCEPT !.pc = "overlap", !.inicioDate = inicioDate,
                            !.finDate = finDate, !.sala = turnoData.sala]

processTurnoItem_overlap(q, rows, dbOk, primero) ==
    LET overlapValidation ==
            validateTurnoOverlap(rows, q.sala, q.inicioDate, q.finDate, 0, dbOk, primero)
        q1 == [q EXCEPT !.faulted = @ \/ ~dbOk]
    IN  IF ~overlapValidation.valido
        THEN PushError(q1, overlapValidation.mensaje, overlapValidation.conflicto)
        ELSE [q1 EXCEPT !.pc = "write"]

\* Mutant: the created rows are buffered and reach the table after the loop.
processTurnoItem_insert_Deferred(q, rows, outcome) ==
    [req |-> ItemDone([q EXCEPT !.turnosCreados =
                Append(@, [index |-> q.idx - 1, id |-> Len(rows) + 1])]),
     rows |-> rows]

\* prisma.turno.create inside the try block
processTurnoItem_insert(q, rows, outcome) ==
    LET turnoData == q.in.turnos[q.idx]
        row == NewRow(turnoData.peliculaId, q.sala, q.inicioDate, q.finDate,
                      IF turnoData.estado = NoStr THEN "ACTIVO" ELSE turnoData.estado)
    IN  IF ~turnos_no_overlap_exclusion(rows, 0, row.sala, row.inicio, row.fin)
        THEN [req |-> IF IsConstraintError(ExclusionError)
                      THEN PushError(q, "DB_CONSTRAINT", 0)
                      ELSE PushError(q, ExclusionError.message, 0),
              rows |-> rows]
        ELSE IF outcome = "fail"
        THEN [req |-> PushError([q EXCEPT !.faulted = TRUE], TransientError.message, 0),
              rows |-> rows]
        ELSE IF outcome = "failAfterCommit"
        THEN [req |-> PushError([q EXCEPT !.faulted = TRUE], TransientError.message, 0),
              rows |-> Append(rows, row)]
        ELSE [req |-> ItemDone([q EXCEPT !.turnosCreados =
                          Append(@, [index |-> q.idx - 1, id |-> Len(rows) + 1])]),
              rows |-> Append(rows, row)]

\* Mutant: the limit is checked with >=.
createMultipleTurnos_start_OffByOne(q, dbOk, ahora) ==
    IF Len(q.in.turnos) = 0
    THEN createMultipleTurnos_catch(q, createError(400, "INVALID_INPUT", "INVALID_INPUT"))
    ELSE IF Len(q.in.turnos) >= BatchLimit
    THEN createMultipleTurnos_catch(q, createError(400, "LIMIT_EXCEEDED", "LIMIT_EXCEEDED"))
    ELSE processTurnoItem_findPelicula([q EXCEPT !.idx = 1], dbOk, ahora)

\* the checks on the array, then the first item
createMultipleTurnos_start(q, dbOk, ahora) ==
    IF Len(q.in.turnos) = 0
    THEN createMultipleTurnos_catch(q, createError(400, "INVALID_INPUT", "INVALID_INPUT"))
    ELSE IF Len(q.in.turnos) > BatchLimit
    THEN createMultipleTurnos_catch(q, createError(400, "LIMIT_EXCEEDED", "LIMIT_EXCEEDED"))
    ELSE processTurnoItem_findPelicula([q EXCEPT !.idx = 1], dbOk, ahora)

\* the items that are enumerated: two that overlap each other in A1, one in
\* another sala, one a millisecond too short, one of a missing pelicula, one
\* stored as CANCELADO, and null
ItemValues ==
    { Item("p1", "A1", Min(10), Min(85)),
      Item("p1", "A1", Min(20), Min(95)),
      Item("p1", "A2", Min(20), Min(95)),
      Item("p1", "A1", Min(10), Min(85) - 1),
      Item(MissingPelicula, "A1", Min(10), Min(85)),
      NullItem }

SeqsUpTo(S, n) == UNION { [1..k -> S] : k \in 0..n }

\* the batches of the concurrent specification are short
SmallBatches ==
    SeqsUpTo({ Item("p1", "A1", Min(10), Min(85)),
               [Item("p1", "A1", Min(20), Min(95)) EXCEPT !.estado = "CANCELADO"] }, 2)

AllBatches == SeqsUpTo(ItemValues, MaxBatch)

\* the batches around the limit: k items of a missing pelicula but for one item
\* of A2 that can be stored, at the first or at the 49th position
LongBatch(k, pos) ==
    [i \in 1..k |-> IF i = pos THEN Item("p1", "A2", Min(20), Min(95))
                    ELSE Item(MissingPelicula, "A1", Min(10), Min(85))]

LongBatches ==
    { LongBatch(k, pos) : k \in (BatchLimit - 1)..(BatchLimit + MaxOver), pos \in {1, 49} }

createMultipleTurnos(r, inputs) ==
    \E items \in inputs, dbOk \in BOOLEAN :
        /\ CanArrive(r)
        /\ req' = [req EXCEPT ![r] =
                     createMultipleTurnos_start(
                         Arrive(req, r, "batch", [NoInput EXCEPT !.turnos = items]),
                         dbOk, now)]
        /\ UNCHANGED <<turnos, now, peliculas, refreshTokens, authReq, call>>

processTurnoItem(r) ==
    /\ req[r].kind = "batch" /\ req[r].pc = "lookup"
    /\ \E dbOk \in BOOLEAN :
          req' = [req EXCEPT ![r] = processTurnoItem_findPelicula(req[r], dbOk, now)]
    /\ UNCHANGED <<turnos, now, peliculas, refreshTokens, authReq, call>>

processTurnoItem_validateOverlap(r) ==
    /\ req[r].kind = "batch" /\ req[r].pc = "overlap"
    /\ \E dbOk \in BOOLEAN,
          primero \in Primeros(turnos, req[r].sala, req[r].inicioDate, req[r].finDate, 0) :
          req' = [req EXCEPT ![r] = processTurnoItem_overlap(req[r], turnos, dbOk, primero)]
    /\ UNCHANGED <<turnos, now, peliculas, refreshTokens, authReq, call>>

processTurnoItem_create(r) ==
    /\ req[r].kind = "batch" /\ req[r].pc = "write"
    /\ \E outcome \in WriteOutcomes :
          LET res == processTurnoItem_insert(req[r], turnos, outcome)
          IN  /\ req' = [req EXCEPT ![r] = res.req]
              /\ turnos' = res.rows
    /\ UNCHANGED <<now, peliculas, refreshTokens, authReq, call>>

(***************************************************************************)
(* bulkCreateTurnos (POST /api/peliculas/:id/turnos:bulkCreate; the route  *)
(* has no validation middleware).  The items go to prisma.turno.createMany *)
(* as they came, with the pelicula of the path: one INSERT, which stores   *)
(* every row or none.  The catch block maps nothing.                       *)
(***************************************************************************)
bulkCreateTurnos_findFirst(q, dbOk) ==
    IF ~dbOk THEN NextError([q EXCEPT !.faulted = TRUE], TransientError)
    ELSE IF q.in.peliculaId \notin PeliculaIds
    THEN NextError(q, createError(404, "MOVIE_NOT_FOUND", "MOVIE_NOT_FOUND"))
    ELSE [q EXCEPT !.pc = "write"]

bulkCreateTurnos_write(q, rows, outcome) ==
    LET items == q.in.turnos
        news == [i \in DOMAIN items |->
                    NewRow(q.in.peliculaId, items[i].sala, items[i].inicio,
                           items[i].fin,
                           IF items[i].estado = NoStr THEN "ACTIVO"
                           ELSE items[i].estado)]
        all == rows \o news
    IN  IF \E i \in DOMAIN news : news[i].inicio > news[i].fin
        THEN [req |-> NextError(q, RangeError), rows |-> rows]
        ELSE IF \E i \in DOMAIN news :
                   ~turnos_no_overlap_exclusion(all, Len(rows) + i, news[i].sala,
                                                news[i].inicio, news[i].fin)
        THEN [req |-> NextError([q EXCEPT !.dbRejected = TRUE], ExclusionError),
              rows |-> rows]
        ELSE IF outcome = "fail"
        THEN [req |-> NextError([q EXCEPT !.faulted = TRUE], TransientError),
              rows |-> rows]
        ELSE IF outcome = "failAfterCommit"
        THEN [req |-> NextError([q EXCEPT !.faulted = TRUE], TransientError),
              rows |-> all]
        ELSE [req |-> Respond(q, 201, NoStr, NoStr), rows |-> all]

\* the bodies that are enumerated: a turno with fin = inicio, one with
\* fin < inicio, one shorter than its pelicula, two that overlap each other
BulkCreateBodies ==
    { << Item(NoStr, "A2", Min(200), Min(200)) >>,
      << Item(NoStr, "A2", Min(95), Min(20)) >>,
      << Item(NoStr, "A2", Min(10), Min(30)) >>,
      << Item(NoStr, "A1", Min(10), Min(30)), Item(NoStr, "A1", Min(20), Min(40)) >> }

bulkCreateTurnos(r) ==
    \E id \in {"p1", MissingPelicula}, items \in BulkCreateBodies, dbOk \in BOOLEAN :
        /\ CanArrive(r)
        /\ req' = [req EXCEPT ![r] =
                     bulkCreateTurnos_findFirst(
                         Arrive(req, r, "bulkCreate",
                                [NoInput EXCEPT !.peliculaId = id, !.turnos = items]),
                         dbOk)]
        /\ UNCHANGED <<turnos, now, peliculas, refreshTokens, authReq, call>>

bulkCreateTurnos_createMany(r) ==
    /\ req[r].kind = "bulkCreate" /\ req[r].pc = "write"
    /\ \E outcome \in WriteOutcomes :
          LET res == bulkCreateTurnos_write(req[r], turnos, outcome)
          IN  /\ req' = [req EXCEPT ![r] = res.req]
              /\ turnos' = res.rows
    /\ UNCHANGED <<now, peliculas, refreshTokens, authReq, call>>

(***************************************************************************)
(* deletePelicula (DELETE /api/peliculas/:id): one findFirst that reads    *)
(* the pelicula with the count of its turnos that are not soft-deleted,    *)
(* then the update that sets eliminadoEn.                                  *)
(***************************************************************************)
deletePelicula_findFirst(q, rows, dbOk) ==
    IF ~dbOk THEN NextError([q EXCEPT !.faulted = TRUE], TransientError)
    ELSE IF q.in.peliculaId \notin PeliculaIds
    THEN NextError(q, createError(404, "MOVIE_NOT_FOUND", "MOVIE_NOT_FOUND"))
    ELSE IF Cardinality({ j \in DOMAIN rows : /\ rows[j].peliculaId = q.in.peliculaId
                                              /\ ~rows[j].eliminado }) > 0
    THEN NextError(q, createError(409, "HAS_ACTIVE_SCHEDULES", "HAS_ACTIVE_SCHEDULES"))
    ELSE [q EXCEPT !.pc = "write"]

\* prisma.pelicula.update({ where: { id }, data: { eliminadoEn } }) and the response
deletePelicula_write(q, table, outcome) ==
    LET deleted == [table EXCEPT ![q.in.peliculaId].eliminado = TRUE]
    IN  IF outcome = "fail"
        THEN [req |-> NextError([q EXCEPT !.faulted = TRUE], TransientError),
              peliculas |-> table]
        ELSE IF outcome = "failAfterCommit"
        THEN [req |-> NextError([q EXCEPT !.faulted = TRUE], TransientError),
              peliculas |-> deleted]
        ELSE [req |-> Respond(q, 200, NoStr, NoStr), peliculas |-> deleted]

deletePelicula(r) ==
    \E id \in {"p1", "p2", MissingPelicula, DeletedPelicula}, dbOk \in BOOLEAN :
        /\ CanArrive(r)
        /\ req' = [req EXCEPT ![r] =
                     deletePelicula_findFirst(
                         Arrive(req, r, "deletePelicula",
                                [NoInput EXCEPT !.peliculaId = id]),
                         turnos, dbOk)]
        /\ UNCHANGED <<turnos, now, peliculas, refreshTokens, authReq, call>>

deletePelicula_update(r) ==
    /\ req[r].kind = "deletePelicula" /\ req[r].pc = "write"
    /\ \E outcome \in WriteOutcomes :
          LET res == deletePelicula_write(req[r], peliculas, outcome)
          IN  /\ req' = [req EXCEPT ![r] = res.req]
              /\ peliculas' = res.peliculas
    /\ UNCHANGED <<turnos, now, refreshTokens, authReq, call>>

(***************************************************************************)
(* /api/auth: refreshToken and logout over the refresh_tokens table.  A    *)
(* refresh token is the JWT of { id, type: 'refresh' } signed with         *)
(* expiresIn '7d': for one usuario the string is determined by iat, the    *)
(* second of signing.  token is the key of findUnique, hence unique in the *)
(* table.  One usuario; the secrets are configured and jwt.verify accepts  *)
(* every stored token that has not expired.                                *)
(***************************************************************************)
SevenDays == 7 * 24 * 60 * 60 * 1000
MsPerSecond == 1000

\* the seconds of one reading of the clock in which a handler may sign
SignSeconds == {0, 1, 2}

Token(iat) == [iat |-> iat]
NoToken == Token(0 - 1)
\* a string that was never issued
UnknownToken == Token(0 - 2)

TokenRow(token, expiresAt) ==
    [token |-> token, revocado |-> FALSE, expiresAt |-> expiresAt]

\* P2002: unique constraint failed on token
UniqueError == [statusCode |-> 0, code |-> "P2002", message |-> "UNIQUE_TOKEN"]

AuthIdle ==
    [kind |-> "none", pc |-> "idle", token |-> NoToken, storedToken |-> 0,
     newRefreshToken |-> NoToken, status |-> 0, code |-> NoStr, faulted |-> FALSE]

NoAuth == [r \in Reqs |-> AuthIdle]

AuthRespond(q, status, code) ==
    [q EXCEPT !.pc = "done", !.status = status, !.code = code, !.storedToken = 0]

AuthNextError(q, error) ==
    LET e == errorHandler(error) IN AuthRespond(q, e.status, e.code)

\* the row that findUnique({ where: { token } }) returns, 0 for null
findUnique(rows, token) ==
    IF \E j \in DOMAIN rows : rows[j].token = token
    THEN CHOOSE j \in DOMAIN rows : rows[j].token = token
    ELSE 0

\* findUnique, the test of the stored token, jwt.verify, generateTokens
refreshToken_findUnique(q, rows, dbOk, ahora, iat) ==
    LET storedToken == findUnique(rows, q.token) IN
    IF ~dbOk THEN AuthNextError([q EXCEPT !.faulted = TRUE], TransientError)
    ELSE IF storedToken = 0 \/ rows[storedToken].revocado
            \/ rows[storedToken].expiresAt < ahora
    THEN AuthNextError(q, createError(401, "INVALID_REFRESH_TOKEN",
                                      "INVALID_REFRESH_TOKEN"))
    ELSE [q EXCEPT !.pc = "revoke", !.storedToken = storedToken,
                   !.newRefreshToken = Token(iat)]

\* prisma.refreshToken.update({ where: { id }, data: { revocado: true } })
refreshToken_revoke(q, rows, outcome) ==
    LET revoked == [rows EXCEPT ![q.storedToken].revocado = TRUE]
    IN  IF outcome = "fail"
        THEN [req |-> AuthNextError([q EXCEPT !.faulted = TRUE], TransientError),
              rows |-> rows]
        ELSE IF outcome = "failAfterCommit"
        THEN [req |-> AuthNextError([q EXCEPT !.faulted = TRUE], TransientError),
              rows |-> revoked]
        ELSE [req |-> [q EXCEPT !.pc = "create"], rows |-> revoked]

\* prisma.refreshToken.create of the new token, and the response
refreshToken_insert(q, rows, outcome, ahora) ==
    LET row == TokenRow(q.newRefreshToken, ahora + SevenDays)
    IN  IF findUnique(rows, q.newRefreshToken) # 0
        THEN [req |-> AuthNextError(q, UniqueError), rows |-> rows]
        ELSE IF outcome = "fail"
        THEN [req |-> AuthNextError([q EXCEPT !.faulted = TRUE], TransientError),
              rows |-> rows]
        ELSE IF outcome = "failAfterCommit"
        THEN [req |-> AuthNextError([q EXCEPT !.faulted = TRUE], TransientError),
              rows |-> Append(rows, row)]
        ELSE [req |-> AuthRespond(q, 200, NoStr), rows |-> Append(rows, row)]

\* updateMany({ where: { token }, data: { revocado: true } }) and the response;
\* a body without refreshToken skips the update
logout_updateMany(q, rows, outcome) ==
    LET revoked == [j \in DOMAIN rows |->
                       IF rows[j].token = q.token
                       THEN [rows[j] EXCEPT !.revocado = TRUE] ELSE rows[j]]
    IN  IF q.token = NoToken THEN [req |-> AuthRespond(q, 200, NoStr), rows |-> rows]
        ELSE IF outcome = "fail"
        THEN [req |-> AuthNextError([q EXCEPT !.faulted = TRUE], TransientError),
              rows |-> rows]
        ELSE IF outcome = "failAfterCommit"
        THEN [req |-> AuthNextError([q EXCEPT !.faulted = TRUE], TransientError),
              rows |-> revoked]
        ELSE [req |-> AuthRespond(q, 200, NoStr), rows |-> revoked]

\* slots are taken in order
AuthCanArrive(r) ==
    /\ authReq[r].pc = "idle"
    /\ \A p \in Reqs : p < r => authReq[p].pc # "idle"

\* the refresh tokens a client may send: those issued, and one never issued
SentTokens == { refreshTokens[j].token : j \in DOMAIN refreshTokens } \cup {UnknownToken}

refreshToken(r) ==
    \E token \in SentTokens, dbOk \in BOOLEAN, s \in SignSeconds :
        /\ AuthCanArrive(r)
        /\ authReq' = [authReq EXCEPT ![r] =
                         refreshToken_findUnique(
                             [AuthIdle EXCEPT !.kind = "refresh", !.token = token],
                             refreshTokens, dbOk, now, now + s * MsPerSecond)]
        /\ UNCHANGED <<turnos, now, req, peliculas, refreshTokens, call>>

refreshToken_update(r) ==
    /\ authReq[r].kind = "refresh" /\ authReq[r].pc = "revoke"
    /\ \E outcome \in WriteOutcomes :
          LET res == refreshToken_revoke(authReq[r], refreshTokens, outcome)
          IN  /\ authReq' = [authReq EXCEPT ![r] = res.req]
              /\ refreshTokens' = res.rows
    /\ UNCHANGED <<turnos, now, req, peliculas, call>>

refreshToken_create(r) ==
    /\ authReq[r].kind = "refresh" /\ authReq[r].pc = "create"
    /\ \E outcome \in WriteOutcomes :
          LET res == refreshToken_insert(authReq[r], refreshTokens, outcome, now)
          IN  /\ authReq' = [authReq EXCEPT ![r] = res.req]
              /\ refreshTokens' = res.rows
    /\ UNCHANGED <<turnos, now, req, peliculas, call>>

logout(r) ==
    \E token \in SentTokens \cup {NoToken}, outcome \in WriteOutcomes :
        /\ AuthCanArrive(r)
        /\ LET res == logout_updateMany(
                          [AuthIdle EXCEPT !.kind = "logout", !.token = token],
                          refreshTokens, outcome)
           IN  /\ authReq' = [authReq EXCEPT ![r] = res.req]
               /\ refreshTokens' = res.rows
        /\ UNCHANGED <<turnos, now, req, peliculas, call>>

(***************************************************************************)
(* The two pure computations of turnoValidations.ts applied on their own:  *)
(* validateTurnoDuration to given dates, and the OR of the where clause of *)
(* validateTurnoOverlap to one stored turno and one candidate.  call holds *)
(* the arguments and, once the function has run (done), its result.       *)
(***************************************************************************)
\* the dates given to validateTurnoDuration: unparsable, on the minute, and a
\* millisecond or a minute around the limits of its rules
DurationInicios == {InvalidDate, 0, Min(15), Min(30)}
DurationLengths ==
    {0 - Min(15), 0, 1, Min(74), Min(75) - 1, Min(75), Min(75) + 1, Min(239),
     Min(240), Min(241) - 1, Min(241)}
DurationFins ==
    {InvalidDate}
    \cup { i + l : i \in DurationInicios \ {InvalidDate}, l \in DurationLengths }
DurationPeliculas == {60, 225, 226}
DurationAhoras == {0, Min(15), Min(15) + 1}

DurationCalls ==
    { [fn |-> "validateTurnoDuration", inicio |-> i, fin |-> f,
       duracionPeliculaMin |-> d, ahora |-> a, done |-> FALSE, ret |-> NoStr]
        : i \in DurationInicios, f \in DurationFins, d \in DurationPeliculas,
          a \in DurationAhoras }

\* the ends of the stored turno and of the candidate
OverlapDates == { Min(m) : m \in {0, 15, 30, 45, 60} }

OverlapCalls ==
    { [fn |-> "validateTurnoOverlap", t |-> [inicio |-> i, fin |-> f],
       inicio |-> s, fin |-> e, done |-> FALSE, ret |-> FALSE]
        : i \in OverlapDates, f \in OverlapDates, s \in OverlapDates,
          e \in OverlapDates }

validateTurnoDuration_return ==
    /\ call.fn = "validateTurnoDuration" /\ ~call.done
    /\ call' = [call EXCEPT !.done = TRUE, !.ret =
                   validateTurnoDuration(call.inicio, call.fin,
                                         call.duracionPeliculaMin, call.ahora)]
    /\ UNCHANGED <<turnos, now, req, peliculas, refreshTokens, authReq>>

validateTurnoOverlap_where ==
    /\ call.fn = "validateTurnoOverlap" /\ ~call.done
    /\ call' = [call EXCEPT !.done = TRUE,
                              !.ret = OverlapCases(call.t, call.inicio, call.fin)]
    /\ UNCHANGED <<turnos, now, req, peliculas, refreshTokens, authReq>>

(***************************************************************************)
(* The clock.                                                              *)
(***************************************************************************)
TickMs == Min(15)

Tick ==
    /\ now < MaxTicks * TickMs
    /\ now' = now + TickMs
    /\ UNCHANGED <<turnos, req, peliculas, refreshTokens, authReq, call>>

\* the table after the migrations and the seed: empty, or with one seeded turno
\* (the seed stores fin = inicio + duracionMin + 15 minutes)
SeedTurno == NewRow("p1", "A1", Min(85), Min(85) + (duracionMin("p1") + 15) * MsPerMin, "ACTIVO")

\* no pure function applied
NoCall == [fn |-> "none"]

Init ==
    /\ peliculas = SeedPeliculas
    /\ turnos \in { <<>>, <<SeedTurno>> }
    /\ now = 0
    /\ req = [r \in Reqs |-> Idle]
    /\ refreshTokens = <<>>
    /\ authReq = NoAuth
    /\ call = NoCall

Next ==
    \/ \E r \in Reqs : createTurno(r)
    \/ \E r \in Reqs : createTurno_validateOverlap(r)
    \/ \E r \in Reqs : createTurno_create(r)
    \/ \E r \in Reqs : updateTurno(r)
    \/ \E r \in Reqs : updateTurno_validateOverlap(r)
    \/ \E r \in Reqs : updateTurno_update(r)
    \/ \E r \in Reqs : deleteTurno(r)
    \/ \E r \in Reqs : deleteTurno_update(r)
    \/ \E r \in Reqs : createMultipleTurnos(r, SmallBatches)
    \/ \E r \in Reqs : processTurnoItem(r)
    \/ \E r \in Reqs : processTurnoItem_validateOverlap(r)
    \/ \E r \in Reqs : processTurnoItem_create(r)
    \/ Tick

Spec == Init /\ [][Next]_vars

(***************************************************************************)
(* Every endpoint that writes turnos: those of /api/turnos and             *)
(* bulkCreateTurnos of /api/peliculas.                                     *)
(***************************************************************************)
NextAll ==
    \/ Next
    \/ \E r \in Reqs : bulkCreateTurnos(r)
    \/ \E r \in Reqs : bulkCreateTurnos_createMany(r)

SpecAll == Init /\ [][NextAll]_vars

(***************************************************************************)
(* createTurno for one long pelicula: "p1" lasts 210, 225, 226 or 240      *)
(* minutes (duracionMin is any integer from 1, part_003:48), and sala A1   *)
(* may hold a turno of the other pelicula.                                 *)
(***************************************************************************)
LongDuraciones == {210, 225, 226, 240}

LongPeliculas ==
    { [SeedPeliculas EXCEPT !["p1"] = Pelicula(d, FALSE)] : d \in LongDuraciones }

InitLong ==
    /\ peliculas \in LongPeliculas
    /\ turnos \in { <<>>, <<NewRow("p2", "A1", Min(85), Min(85 + 131 + 15), "ACTIVO")>> }
    /\ now = 0
    /\ req = [r \in Reqs |-> Idle]
    /\ refreshTokens = <<>>
    /\ authReq = NoAuth
    /\ call = NoCall

NextLong ==
    \/ \E r \in Reqs : createTurno(r)
    \/ \E r \in Reqs : createTurno_validateOverlap(r)
    \/ \E r \in Reqs : createTurno_create(r)
    \/ Tick

SpecLong == InitLong /\ [][NextLong]_vars

(***************************************************************************)
(* createTurno and deleteTurno of /api/turnos with deletePelicula of       *)
(* /api/peliculas.                                                         *)
(***************************************************************************)
NextPeliculas ==
    \/ \E r \in Reqs : createTurno(r)
    \/ \E r \in Reqs : createTurno_validateOverlap(r)
    \/ \E r \in Reqs : createTurno_create(r)
    \/ \E r \in Reqs : deleteTurno(r)
    \/ \E r \in Reqs : deleteTurno_update(r)
    \/ \E r \in Reqs : deletePelicula(r)
    \/ \E r \in Reqs : deletePelicula_update(r)
    \/ Tick

SpecPeliculas == Init /\ [][NextPeliculas]_vars

(***************************************************************************)
(* /api/auth after a login at time 0 stored one refresh token.             *)
(***************************************************************************)
InitAuth ==
    /\ peliculas = SeedPeliculas
    /\ turnos = <<>>
    /\ now = 0
    /\ req = [r \in Reqs |-> Idle]
    /\ refreshTokens = <<TokenRow(Token(0), SevenDays)>>
    /\ authReq = NoAuth
    /\ call = NoCall

NextAuth ==
    \/ \E r \in Reqs : refreshToken(r)
    \/ \E r \in Reqs : refreshToken_update(r)
    \/ \E r \in Reqs : refreshToken_create(r)
    \/ \E r \in Reqs : logout(r)
    \/ Tick

SpecAuth == InitAuth /\ [][NextAuth]_vars

(***************************************************************************)
(* The pure computations on their own.                                     *)
(***************************************************************************)
InitPure ==
    /\ peliculas = SeedPeliculas
    /\ turnos = <<>>
    /\ now = 0
    /\ req = [r \in Reqs |-> Idle]
    /\ refreshTokens = <<>>
    /\ authReq = NoAuth
    /\ call \in DurationCalls \cup OverlapCalls

NextPure ==
    \/ validateTurnoDuration_return
    \/ validateTurnoOverlap_where

SpecPure == InitPure /\ [][NextPure]_vars

(***************************************************************************)
(* One batch request on its own, over every batch of up to MaxBatch items. *)
(***************************************************************************)
NextBatch ==
    \/ createMultipleTurnos(1, AllBatches)
    \/ processTurnoItem(1)
    \/ processTurnoItem_validateOverlap(1)
    \/ processTurnoItem_create(1)
    \/ Tick

SpecBatch == Init /\ [][NextBatch]_vars

(***************************************************************************)
(* One batch request on its own, over batches around the limit of 50.      *)
(***************************************************************************)
NextLimit ==
    \/ createMultipleTurnos(1, LongBatches)
    \/ processTurnoItem(1)
    \/ processTurnoItem_validateOverlap(1)
    \/ processTurnoItem_create(1)
    \/ Tick

SpecLimit == Init /\ [][NextLimit]_vars

(***************************************************************************)
(* Properties.                                                             *)
(***************************************************************************)
Live(t) == t.estado \in LiveEstados /\ ~t.eliminado

\* the fin that createTurno derives for a body
CreateFin(in) == in.inicio + (duracionMin(in.peliculaId) + CreateBufferMin) * MsPerMin

Conflict409(q) == q.status = 409 /\ q.code = "SCHEDULE_CONFLICT"

\* no updateTurno names the row
NeverUpdated(id) == \A u \in Reqs : req[u].kind = "update" => req[u].in.id # id

\* C1: no two distinct live turnos (ACTIVO or INACTIVO, not soft-deleted) of the
\* same sala have ranges with a.inicio < b.fin and b.inicio < a.fin, in any
\* reachable state of any interleaving of createTurno, updateTurno, deleteTurno
\* and createMultipleTurnos.
C1_MutualExclusion ==
    \A a, b \in DOMAIN turnos :
        (a # b /\ turnos[a].sala = turnos[b].sala /\ Live(turnos[a]) /\ Live(turnos[b]))
        => ~(turnos[a].inicio < turnos[b].fin /\ turnos[b].inicio < turnos[a].fin)

\* a request passed the overlap pre-check and lost the race: its write met a
\* live turno of another request, and the table holds two live turnos in a sala
C1_Witness ==
    /\ \E r \in Reqs : req[r].prechecked /\ req[r].dbRejected /\ req[r].liveAtWrite
    /\ \E a, b \in DOMAIN turnos :
          a # b /\ turnos[a].sala = turnos[b].sala /\ Live(turnos[a]) /\ Live(turnos[b])

\* two createTurno requests of one sala with intersecting windows that both
\* passed the pre-check, neither hit by a storage failure, no row of a third
\* party in their windows, and no updateTurno of the rows they stored
RacingCreates(r, q) ==
    /\ r # q
    /\ NeverUpdated(req[r].data) /\ NeverUpdated(req[q].data)
    /\ req[r].kind = "create" /\ req[q].kind = "create"
    /\ req[r].pc = "done" /\ req[q].pc = "done"
    /\ req[r].prechecked /\ req[q].prechecked
    /\ ~req[r].faulted /\ ~req[q].faulted
    /\ req[r].in.sala = req[q].in.sala
    /\ RangeOverlap(req[r].in.inicio, CreateFin(req[r].in),
                    req[q].in.inicio, CreateFin(req[q].in))
    /\ \A j \in DOMAIN turnos :
          (j \in ExclusionConflicts(turnos, 0, req[r].in.sala, req[r].in.inicio,
                                    CreateFin(req[r].in))
           \/ j \in ExclusionConflicts(turnos, 0, req[q].in.sala, req[q].in.inicio,
                                       CreateFin(req[q].in)))
          => j \in {req[r].data, req[q].data}

C3_RaceLoserGetsConflict ==
    \A r \in Reqs :
        (req[r].kind \in {"create", "update"} /\ req[r].pc = "done"
         /\ req[r].prechecked /\ req[r].dbRejected /\ req[r].liveAtWrite)
        => Conflict409(req[r])

\* C4: a create or update whose range meets only CANCELADO or soft-deleted
\* turnos of its sala is not rejected by the exclusion constraint: a rejected
\* write always met a live turno.
C4_DeadRowsDoNotBlock ==
    \A r \in Reqs :
        (req[r].kind \in {"create", "update"} /\ req[r].pc = "done"
         /\ ~req[r].faulted /\ ~req[r].liveAtWrite)
        => ~req[r].dbRejected

\* q repeats the body of p, a createTurno that ended in a storage error, after
\* p was answered
RetryOf(p, q) ==
    /\ req[p].kind = "create" /\ req[q].kind = "create"
    /\ req[p].pc = "done" /\ req[q].pc = "done"
    /\ p \in req[q].seen
    /\ req[q].in = req[p].in
    /\ req[p].faulted /\ req[p].status = 500

\* the stored rows of the sala and window of a createTurno body
RowsOf(in) ==
    { j \in DOMAIN turnos :
        /\ turnos[j].sala = in.sala
        /\ turnos[j].inicio = in.inicio
        /\ turnos[j].fin = CreateFin(in) }

\* the body still passes the parent lookup and validateTurnoDuration
StillValid(in) ==
    /\ in.peliculaId \in PeliculaIds
    /\ validateTurnoDuration(in.inicio, CreateFin(in), duracionMin(in.peliculaId), now)
         = "OK"

\* C5: when a createTurno fails with a storage error, committed or not, and the
\* caller retries the same body, the table never holds two rows of that sala and
\* window, and a retry that meets no further storage failure and whose inicio
\* has not passed meanwhile answers 201 or 409 SCHEDULE_CONFLICT.
C5_IdempotentRetry ==
    \A p, q \in Reqs :
        RetryOf(p, q)
        => /\ Cardinality(RowsOf(req[q].in)) <= 1
           /\ (~req[q].faulted /\ StillValid(req[q].in))
              => \/ /\ req[q].status = 201 /\ req[q].data \in DOMAIN turnos
                    /\ NeverUpdated(req[q].data) => req[q].data \in RowsOf(req[q].in)
                 \/ (Conflict409(req[q]) /\ req[q].data = 0)

\* the first attempt had committed a CANCELADO row that the pre-check of the
\* retry does not see: the constraint answers the retry
C5_Witness ==
    \E p, q \in Reqs :
        /\ RetryOf(p, q) /\ req[q].prechecked /\ req[q].dbRejected
        /\ Conflict409(req[q]) /\ Cardinality(RowsOf(req[q].in)) = 1

\* C6: every createTurno answered 201 stored (and returned) fin = inicio +
\* (duracionMin of the pelicula + 15) minutes, whatever fin the body carried.
C6_FinIsDerived ==
    \A r \in Reqs :
        (req[r].kind = "create" /\ req[r].status = 201)
        => /\ req[r].dataFin = req[r].in.inicio
                 + (duracionMin(req[r].in.peliculaId) + 15) * MsPerMin
           /\ req[r].data \in DOMAIN turnos
           /\ NeverUpdated(req[r].data)
              => /\ turnos[req[r].data].inicio = req[r].in.inicio
                 /\ turnos[req[r].data].fin = req[r].dataFin

\* a created turno whose body carried another fin
C6_Witness ==
    \E r \in Reqs :
        /\ req[r].kind = "create" /\ req[r].status = 201
        /\ req[r].in.fin # Absent /\ req[r].in.fin # req[r].dataFin
        /\ turnos[req[r].data].fin = req[r].dataFin

\* a createTurno answered 201 before q arrived whose turno is live, in the sala
\* of q, with the inicio of q inside its stored window
BlockedByEarlier(q) ==
    \E p \in req[q].seen :
        /\ req[p].kind = "create" /\ req[p].status = 201
        /\ turnos[req[p].data].sala = req[q].sala
        /\ Live(turnos[req[p].data])
        /\ turnos[req[p].data].inicio <= req[q].inicioDate
        /\ req[q].inicioDate < turnos[req[p].data].fin

\* C8: once a createTurno was answered 201, a later createTurno of the same sala
\* whose inicio lies inside the stored window of that turno, which is still live,
\* is answered 409 SCHEDULE_CONFLICT by the overlap pre-check and stores no row
\* (the later request being one that passed the parent lookup and
\* validateTurnoDuration, which run before the pre-check).
C8_LaterOverlapRejected ==
    [][\A q \in Reqs :
          (req[q].kind = "create" /\ req[q].pc = "overlap" /\ req'[q] # req[q]
           /\ BlockedByEarlier(q))
          => /\ req'[q].pc = "done" /\ Conflict409(req'[q]) /\ req'[q].data = 0
             /\ turnos' = turnos]_vars

\* the e2e test: a turno created, then one that starts inside it refused
C8_Witness ==
    \E p, q \in Reqs :
        /\ req[p].kind = "create" /\ req[p].status = 201
        /\ req[q].kind = "create" /\ p \in req[q].seen /\ Conflict409(req[q])
        /\ req[q].mensaje = "OVERLAP" /\ req[q].conflicto = req[p].data
        /\ req[q].in.sala = req[p].in.sala
        /\ req[p].in.inicio < req[q].in.inicio /\ req[q].in.inicio < req[p].dataFin
        /\ Live(turnos[req[p].data])

\* C13: an updateTurno that changes sala or estado and neither inicio nor fin,
\* under which the turno would intersect a live turno of another request, is
\* answered 409 SCHEDULE_CONFLICT.
C13_SalaChangeRevalidated ==
    \A r \in Reqs :
        (/\ req[r].kind = "update" /\ req[r].pc = "done" /\ ~req[r].faulted
         /\ req[r].in.inicio = Absent /\ req[r].in.fin = Absent
         /\ (req[r].in.sala # NoStr \/ req[r].in.estado # NoStr)
         /\ req[r].liveAtWrite)
        => Conflict409(req[r])

\* the turnos other than id of a sala, all (live = FALSE) or the live ones, whose
\* range intersects [inicio, fin)
Others(id, sala, inicio, fin, live) ==
    { j \in DOMAIN turnos :
        /\ j # id /\ turnos[j].sala = sala
        /\ live => Live(turnos[j])
        /\ turnos[j].inicio < fin /\ inicio < turnos[j].fin }

RefersToMissing(r) ==
    \/ /\ req'[r].kind = "create" /\ req'[r].pc = "done"
       /\ req'[r].in.peliculaId \notin PeliculaIds
    \/ /\ req[r].pc = "idle" /\ req'[r].kind \in {"update", "delete"}
       /\ \/ req'[r].in.id \notin DOMAIN turnos
          \/ turnos[req'[r].in.id].eliminado
    \/ /\ req'[r].kind = "update" /\ req'[r].pc = "done"
       /\ req'[r].in.peliculaId # NoStr
       /\ req'[r].in.peliculaId \notin PeliculaIds

\* C15: a createTurno of a missing or soft-deleted pelicula, an updateTurno or
\* deleteTurno of a missing or soft-deleted turno, and an updateTurno that
\* re-points the turno to a missing or soft-deleted pelicula are answered 404
\* and change no row (storage failures apart).
C15_NotFound ==
    [][\A r \in Reqs :
          (req'[r] # req[r] /\ ~req'[r].faulted /\ RefersToMissing(r))
          => /\ req'[r].pc = "done" /\ req'[r].status = 404
             /\ turnos' = turnos]_vars

\* C16: a step that answers a createTurno or updateTurno with 400, 404 or 409
\* leaves the table as it was, and a step of a createTurno or updateTurno that
\* changes the table applies the whole write: one row appended, or one row
\* replaced by the row with every field of the body applied, and the request is
\* answered in that step.
C16_FailedRequestsChangeNothing ==
    [][\A r \in Reqs :
          (req'[r] # req[r] /\ req'[r].kind \in {"create", "update"})
          => /\ req'[r].status \in {400, 404, 409} => turnos' = turnos
             /\ turnos' # turnos
                => /\ req'[r].pc = "done" /\ req[r].pc = "write"
                   /\ req'[r].kind = "create"
                      => /\ Len(turnos') = Len(turnos) + 1
                         /\ SubSeq(turnos', 1, Len(turnos)) = turnos
                         /\ turnos'[Len(turnos')].sala = req[r].sala
                         /\ turnos'[Len(turnos')].inicio = req[r].inicioDate
                         /\ turnos'[Len(turnos')].fin = req[r].finDate
                   /\ req'[r].kind = "update"
                      => turnos' = [turnos EXCEPT ![req[r].in.id] =
                                       UpdatedRow(req[r], turnos[req[r].in.id])]]_vars

\* a createTurno that the constraint refused was answered 409 and stored no
\* row, next to a row stored by another request
C16_Witness ==
    \E r \in Reqs :
        /\ req[r].kind = "create" /\ Conflict409(req[r]) /\ req[r].dbRejected
        /\ req[r].data = 0
        /\ \E p \in Reqs : p # r /\ req[p].status \in {200, 201} /\ req[p].data # 0

\* C17: a write that the exclusion constraint refused is answered 409
\* SCHEDULE_CONFLICT, by createTurno and by updateTurno, and is recorded by a
\* batch as a conflict of the item and not with the raw storage error.
C17_StorageConflictIs409 ==
    \A r \in Reqs :
        /\ (req[r].kind \in {"create", "update"} /\ req[r].dbRejected)
           => (req[r].status = 409 /\ req[r].code = "SCHEDULE_CONFLICT")
        /\ req[r].kind = "batch"
           => \A k \in DOMAIN req[r].errores :
                 req[r].errores[k].error # ExclusionError.message

\* C18: whenever a createTurno, an updateTurno or an item of a batch is refused
\* as a schedule conflict, by the pre-check or by the constraint, with no
\* storage failure involved, the error names a stored turno of the sala whose
\* range intersects the window of the candidate.
C18_ConflictNamesTurno ==
    [][\A r \in Reqs :
          (req'[r] # req[r] /\ ~req'[r].faulted)
          => /\ (req'[r].kind \in {"create", "update"} /\ Conflict409(req'[r]))
                => req'[r].conflicto \in
                       Others(req[r].in.id, req[r].sala, req[r].inicioDate,
                              req[r].finDate, FALSE)
             /\ (/\ req'[r].kind = "batch"
                 /\ Len(req'[r].errores) > Len(req[r].errores)
                 /\ req'[r].errores[Len(req'[r].errores)].error
                        \in {"OVERLAP", "DB_CONSTRAINT"})
                => req'[r].errores[Len(req'[r].errores)].conflicto \in
                       Others(0, req[r].sala, req[r].inicioDate, req[r].finDate,
                              FALSE)]_vars

\* C19: a createTurno or updateTurno that met a storage failure other than the
\* constraint (in the read of the overlap pre-check, in a lookup or in the
\* write) is never answered 409 SCHEDULE_CONFLICT nor 400.
C19_StorageFailureNotRelabelled ==
    \A r \in Reqs :
        (req[r].kind \in {"create", "update"} /\ req[r].pc = "done"
         /\ req[r].faulted)
        => req[r].status \notin {400, 409}

\* C20: after any sequence of requests to the endpoints that write turnos (POST
\* /api/turnos, PUT /api/turnos/:id, DELETE /api/turnos/:id, POST
\* /api/turnos/bulk, POST /api/peliculas/:id/turnos:bulkCreate), every stored
\* turno has fin > inicio.
C20_FinAfterInicio ==
    \A j \in DOMAIN turnos : turnos[j].fin > turnos[j].inicio

\* C21: in every reachable state a soft-deleted turno (eliminadoEn set) has
\* estado CANCELADO.
C21_DeletedIsCancelled ==
    \A j \in DOMAIN turnos : turnos[j].eliminado => turnos[j].estado = "CANCELADO"

\* C22: salas are independent.  A createTurno that no storage failure hit is
\* answered 409 SCHEDULE_CONFLICT only when a stored turno of its own sala
\* intersects its window, so two creates with the same window in different
\* salas never refuse each other, in any interleaving; and the turno that a
\* conflict names is of the sala of the request.
C22_SalasIndependent ==
    [][\A r \in Reqs :
          (/\ req'[r] # req[r] /\ req'[r].kind = "create"
           /\ ~req'[r].faulted /\ Conflict409(req'[r]))
          => /\ Others(0, req[r].sala, req[r].inicioDate, req[r].finDate, FALSE) # {}
             /\ req'[r].conflicto # 0
                => turnos[req'[r].conflicto].sala = req[r].sala]_vars

\* two creates with the same window in different salas were both answered 201
\* and both rows are stored, one of them while the other was in flight
C22_Witness ==
    \E r, q \in Reqs :
        /\ req[r].kind = "create" /\ req[q].kind = "create"
        /\ req[r].in.sala # req[q].in.sala
        /\ req[r].in.inicio = req[q].in.inicio
        /\ req[r].status = 201 /\ req[q].status = 201
        /\ req[r].data \in DOMAIN turnos /\ req[q].data \in DOMAIN turnos
        /\ turnos[req[r].data].sala # turnos[req[q].data].sala
        /\ turnos[req[r].data].inicio = turnos[req[q].data].inicio
        /\ turnos[req[r].data].fin = turnos[req[q].data].fin

\* C25: when several stored turnos conflict with the candidate of a createTurno
\* or updateTurno, the turno that the pre-check names is the one with the
\* earliest inicio, whatever the order in which the storage returns them.
C25_EarliestConflictNamed ==
    [][\A r \in Reqs :
          (/\ req'[r].kind \in {"create", "update"}
           /\ req[r].conflicto = 0 /\ req'[r].conflicto # 0)
          => \A j \in turnosSolapados(turnos, req[r].sala, req[r].inicioDate,
                                      req[r].finDate, req[r].in.id) :
                turnos[req'[r].conflicto].inicio <= turnos[j].inicio]_vars

\* C27: after every updateTurno answered 200, whatever fields it carried, the
\* stored turno lasts at least duracionMin + 15 whole minutes of the pelicula
\* that it now references, and at most 240.
C27_UpdateKeepsDuration ==
    [][\A r \in Reqs :
          (req'[r] # req[r] /\ req'[r].kind = "update" /\ req'[r].status = 200)
          => LET t == turnos'[req'[r].in.id]
                 duracionTurnoMin == (t.fin - t.inicio) \div MsPerMin
             IN  /\ duracionTurnoMin >= duracionMin(t.peliculaId) + 15
                 /\ duracionTurnoMin <= 240]_vars

(***************************************************************************)
(* Properties of one createMultipleTurnos request (SpecBatch).             *)
(***************************************************************************)
Batch == req[1].in.turnos

\* the indices (from 1) of the items that were created, and of those recorded
\* in errores with a given error
Created(i) ==
    \E k \in DOMAIN req[1].turnosCreados : req[1].turnosCreados[k].index = i - 1

Failed(i, error) ==
    \E k \in DOMAIN req[1].errores :
        req[1].errores[k].index = i - 1 /\ req[1].errores[k].error = error

Processed(i) ==
    Created(i) \/ \E k \in DOMAIN req[1].errores : req[1].errores[k].index = i - 1

\* the item names a pelicula and dates with end - start below the minimum
TooShort(it) ==
    /\ ~it.isNull /\ it.peliculaId \in PeliculaIds
    /\ it.inicio >= 0 /\ it.fin >= 0
    /\ it.fin - it.inicio < (duracionMin(it.peliculaId) + 15) * MsPerMin

ValidItem(i) ==
    /\ ~Batch[i].isNull /\ Batch[i].peliculaId \in PeliculaIds
    /\ validateTurnoDuration(Batch[i].inicio, Batch[i].fin,
                             duracionMin(Batch[i].peliculaId), now) = "OK"
    /\ \A j \in ExclusionConflicts(turnos, 0, Batch[i].sala, Batch[i].inicio,
                                   Batch[i].fin) :
          \E k \in DOMAIN req[1].turnosCreados :
              req[1].turnosCreados[k] = [index |-> i - 1, id |-> j]

\* the item fails whenever it is processed: null, of a missing pelicula, or with
\* dates that no clock accepts
InvalidItem(i) ==
    \/ Batch[i].isNull
    \/ Batch[i].peliculaId \notin PeliculaIds
    \/ validateTurnoDuration(Batch[i].inicio, Batch[i].fin,
                             duracionMin(Batch[i].peliculaId), 0) # "OK"

\* C9: a batch of N <= 50 items of which exactly one is invalid, processed with
\* no storage failure, answers 201 with N-1 created turnos and 1 error, and
\* every valid item after the invalid one is stored.
C9_BatchIsolation ==
    (/\ req[1].kind = "batch" /\ req[1].pc = "done" /\ ~req[1].faulted
     /\ Len(Batch) \in 1..BatchLimit
     /\ \E k \in DOMAIN Batch :
           InvalidItem(k) /\ \A i \in DOMAIN Batch : i # k => ValidItem(i))
    => /\ req[1].status = 201
       /\ Len(req[1].turnosCreados) = Len(Batch) - 1
       /\ Len(req[1].errores) = 1
       /\ \A k, i \in DOMAIN Batch : (InvalidItem(k) /\ k < i) => Created(i)

\* the items pass the parent lookup and validateTurnoDuration
PassesDuration(i) ==
    /\ ~Batch[i].isNull /\ Batch[i].peliculaId \in PeliculaIds
    /\ validateTurnoDuration(Batch[i].inicio, Batch[i].fin,
                             duracionMin(Batch[i].peliculaId), now) = "OK"

\* C10: in a batch that ran to its end with no storage failure, an item that
\* overlaps an item created earlier in the batch, in the same sala, is recorded
\* in errores as a schedule conflict found by the overlap pre-check (which names
\* a stored turno of that sala that intersects it) and is not created; an item
\* whose window no stored row of its sala intersects is created.
C10_SequentialBatch ==
    (req[1].kind = "batch" /\ req[1].pc = "done" /\ req[1].status = 201
     /\ ~req[1].faulted)
    => \A j \in DOMAIN Batch :
          PassesDuration(j)
          => /\ (\E i \in 1..(j - 1) :
                    /\ Created(i) /\ Batch[i].sala = Batch[j].sala
                    /\ RangeOverlap(Batch[i].inicio, Batch[i].fin,
                                    Batch[j].inicio, Batch[j].fin))
                => /\ ~Created(j)
                   /\ \E k \in DOMAIN req[1].errores :
                         /\ req[1].errores[k].index = j - 1
                         /\ req[1].errores[k].error = "OVERLAP"
                         /\ req[1].errores[k].conflicto \in
                                ExclusionConflicts(turnos, 0, Batch[j].sala,
                                                   Batch[j].inicio, Batch[j].fin)
             /\ (\A x \in ExclusionConflicts(turnos, 0, Batch[j].sala,
                                             Batch[j].inicio, Batch[j].fin) :
                    \E k \in DOMAIN req[1].turnosCreados :
                        req[1].turnosCreados[k] = [index |-> j - 1, id |-> x])
                => Created(j)

\* two items that overlap in A1 and one of A2: the first and the third are
\* stored, the second is refused with the turno of the first as the conflict
C10_Witness ==
    /\ req[1].kind = "batch" /\ req[1].status = 201 /\ ~req[1].faulted
    /\ Len(Batch) = 3
    /\ Batch[1].sala = Batch[2].sala /\ Batch[3].sala # Batch[1].sala
    /\ RangeOverlap(Batch[1].inicio, Batch[1].fin, Batch[2].inicio, Batch[2].fin)
    /\ Created(1) /\ Created(3) /\ ~Created(2)
    /\ \E k \in DOMAIN req[1].errores, c \in DOMAIN req[1].turnosCreados :
          /\ req[1].errores[k].index = 1 /\ req[1].errores[k].error = "OVERLAP"
          /\ req[1].turnosCreados[c].index = 0
          /\ req[1].errores[k].conflicto = req[1].turnosCreados[c].id

\* C12: a batch of 1 to 50 items that met no storage failure is answered with
\* the result of the batch (201 with turnosCreados and errores, every item in
\* one of them), never with an error response.
C12_NeverRaises ==
    (req[1].kind = "batch" /\ req[1].pc = "done" /\ ~req[1].faulted
     /\ Len(Batch) \in 1..50)
    => /\ req[1].status = 201
       /\ \A i \in DOMAIN Batch : Processed(i)

\* createTurno of a body run from its arrival to its response, with no other
\* request in between and no storage failure
SingleCreate(in, rows, ahora) ==
    LET q1 == createTurno_findPelicula([Idle EXCEPT !.kind = "create", !.in = in],
                                       TRUE, ahora)
        primero == CHOOSE j \in Primeros(rows, q1.sala, q1.inicioDate, q1.finDate, 0) :
                      TRUE
        q2 == createTurno_overlap(q1, rows, TRUE, primero)
    IN  IF q1.pc = "done" THEN [req |-> q1, rows |-> rows]
        ELSE IF q2.pc = "done" THEN [req |-> q2, rows |-> rows]
        ELSE createTurno_insert(q2, rows, "ok")

\* the body of POST /api/turnos that carries the fields of an item
BodyOf(it) ==
    [NoInput EXCEPT !.peliculaId = it.peliculaId, !.sala = it.sala,
                    !.inicio = it.inicio, !.fin = it.fin, !.estado = it.estado]

\* C26: a batch of one candidate and createTurno of that candidate, from the
\* same table and at the same time, have the same outcome: both store a turno or
\* both refuse it for the same reason, and the turno stored has the same inicio
\* and fin (storage failures aside; the clock has not advanced).
C26_BatchAsSingleCreate ==
    (/\ req[1].kind = "batch" /\ req[1].pc = "done" /\ ~req[1].faulted
     /\ now = 0 /\ Len(Batch) = 1 /\ ~Batch[1].isNull)
    => LET rows0 == IF Created(1) THEN SubSeq(turnos, 1, Len(turnos) - 1) ELSE turnos
           single == SingleCreate(BodyOf(Batch[1]), rows0, 0)
       IN  /\ Created(1) <=> single.req.status = 201
           /\ Created(1)
              => /\ Len(single.rows) = Len(turnos)
                 /\ single.rows[Len(turnos)].inicio = turnos[Len(turnos)].inicio
                 /\ single.rows[Len(turnos)].fin = turnos[Len(turnos)].fin
           /\ ~Created(1) => Failed(1, single.req.mensaje)

(***************************************************************************)
(* Properties of one createMultipleTurnos request around the limit         *)
(* (SpecLimit).                                                            *)
(***************************************************************************)
\* C11: a batch of more than 50 items is answered 400 LIMIT_EXCEEDED by the
\* first step of the handler, with no item processed and the table as it was;
\* a batch of exactly 50 items is processed: when it runs to its end with no
\* storage failure it answers 201 with every item in turnosCreados or errores.
C11_BatchLimit ==
    req[1].kind = "batch"
    => /\ Len(Batch) > 50
          => /\ req[1].pc = "done" /\ req[1].status = 400
             /\ req[1].code = "LIMIT_EXCEEDED"
             /\ req[1].turnosCreados = <<>> /\ req[1].errores = <<>>
             /\ turnos \in { <<>>, <<SeedTurno>> }
       /\ Len(Batch) = 50
          => /\ req[1].code # "LIMIT_EXCEEDED"
             /\ (req[1].pc = "done" /\ ~req[1].faulted)
                => /\ req[1].status = 201
                   /\ \A i \in 1..50 :
                         Processed(i) /\ (PassesDuration(i) => Created(i))

\* a batch of 51 items was refused
C11_Witness ==
    /\ req[1].kind = "batch" /\ Len(Batch) = 51
    /\ req[1].status = 400 /\ req[1].code = "LIMIT_EXCEEDED"
    /\ turnos = <<SeedTurno>>

(***************************************************************************)
(* Properties of createTurno for long peliculas (SpecLong).                *)
(***************************************************************************)
\* C28: a createTurno is answered 201 only for a pelicula of at most 225
\* minutes; for a pelicula of more than 225 minutes every createTurno that no
\* storage failure hit is answered 400 INVALID_DURATION, whatever inicio and
\* sala are; for a pelicula of 225 minutes a createTurno with inicio not in the
\* past, in a sala with no stored turno in its window, is answered 201.
C28_CeilingOnDuracion ==
    \A r \in Reqs :
        (req[r].kind = "create" /\ req[r].pc = "done"
         /\ req[r].in.peliculaId \in PeliculaIds)
        => LET d == duracionMin(req[r].in.peliculaId) IN
           /\ req[r].status = 201 => d <= 225
           /\ (d > 225 /\ ~req[r].faulted)
              => (req[r].status = 400 /\ req[r].code = "INVALID_DURATION")
           /\ (/\ d = 225 /\ ~req[r].faulted
               /\ req[r].in.inicio >= now
               /\ Others(req[r].data, req[r].in.sala, req[r].in.inicio,
                         CreateFin(req[r].in), FALSE) = {})
              => req[r].status = 201

\* a createTurno for a pelicula of 225 minutes stored a turno of 240 minutes
C28_Witness ==
    \E r \in Reqs :
        /\ req[r].kind = "create" /\ req[r].status = 201
        /\ duracionMin(req[r].in.peliculaId) = 225
        /\ req[r].data \in DOMAIN turnos
        /\ turnos[req[r].data].fin - turnos[req[r].data].inicio = Min(240)

(***************************************************************************)
(* Properties of createTurno with deletePelicula (SpecPeliculas).          *)
(***************************************************************************)
\* C29: in every reachable state of every interleaving of createTurno with
\* deletePelicula, each turno that is not soft-deleted references a pelicula
\* that is not soft-deleted.
C29_LiveTurnoHasLivePelicula ==
    \A j \in DOMAIN turnos :
        ~turnos[j].eliminado => turnos[j].peliculaId \in PeliculaIds

(***************************************************************************)
(* Properties of /api/auth (SpecAuth).                                     *)
(***************************************************************************)
\* C30: a stored refresh token is exchanged for a new pair at most once: no two
\* refresh requests that sent the same token are both answered 200, concurrent
\* requests included.
C30_RefreshTokenSingleUse ==
    \A r, q \in Reqs :
        (/\ r # q
         /\ authReq[r].kind = "refresh" /\ authReq[q].kind = "refresh"
         /\ authReq[r].token = authReq[q].token)
        => ~(authReq[r].status = 200 /\ authReq[q].status = 200)

(***************************************************************************)
(* Properties of the pure computations (SpecPure).                         *)
(***************************************************************************)
\* the five rules of validateTurnoDuration, stated on the arguments of the call
Rule1 == call.inicio # InvalidDate /\ call.fin # InvalidDate
Rule2 == call.fin > call.inicio
Rule3 == call.inicio >= call.ahora
Rule4 == \E m \in 0..1000 :
            /\ m * MsPerMin <= call.fin - call.inicio
            /\ call.fin - call.inicio < (m + 1) * MsPerMin
            /\ m >= call.duracionPeliculaMin + 15
Rule5 == \E m \in 0..1000 :
            /\ m * MsPerMin <= call.fin - call.inicio
            /\ call.fin - call.inicio < (m + 1) * MsPerMin
            /\ m <= 240

\* C23: validateTurnoDuration answers with the first rule that fails, in the
\* order well-formed dates, fin > inicio, inicio >= now, whole minutes >=
\* duracionPeliculaMin + 15, whole minutes <= 240, and answers valid exactly
\* when the five hold; inicio = now, minutes = the minimum and minutes = 240
\* are accepted.
C23_FirstFailingRule ==
    (call.fn = "validateTurnoDuration" /\ call.done)
    => /\ call.ret = "INVALID_DATE" <=> ~Rule1
       /\ call.ret = "INVALID_RANGE" <=> (Rule1 /\ ~Rule2)
       /\ call.ret = "IN_THE_PAST" <=> (Rule1 /\ Rule2 /\ ~Rule3)
       /\ call.ret = "TOO_SHORT" <=> (Rule1 /\ Rule2 /\ Rule3 /\ ~Rule4)
       /\ call.ret = "TOO_LONG" <=> (Rule1 /\ Rule2 /\ Rule3 /\ Rule4 /\ ~Rule5)
       /\ call.ret = "OK" <=> (Rule1 /\ Rule2 /\ Rule3 /\ Rule4 /\ Rule5)

\* the call at the three boundaries at once was answered valid: inicio = now,
\* 240 minutes for a pelicula of 225
C23_Witness ==
    /\ call.fn = "validateTurnoDuration" /\ call.done /\ call.ret = "OK"
    /\ call.inicio = call.ahora /\ call.ahora > 0
    /\ call.duracionPeliculaMin = 225
    /\ call.fin - call.inicio = Min(240)

\* C24: for a candidate [s, e) with s < e and a stored turno [i, f) with i < f,
\* the four cases of the where clause match exactly when i < e and s < f;
\* turnos that touch (f = s or i = e) do not match.
C24_FourCasesAreIntersection ==
    (/\ call.fn = "validateTurnoOverlap" /\ call.done
     /\ call.inicio < call.fin /\ call.t.inicio < call.t.fin)
    => call.ret = (call.t.inicio < call.fin /\ call.inicio < call.t.fin)

\* a stored turno that ends where the candidate starts was not matched
C24_Witness ==
    /\ call.fn = "validateTurnoOverlap" /\ call.done /\ ~call.ret
    /\ call.inicio < call.fin /\ call.t.inicio < call.t.fin
    /\ call.t.fin = call.inicio

====
